---- MODULE Spec2Model ----
(***************************************************************************)
(* The reinforcement-learning service of fast-api/main.py: the GridWorld   *)
(* environment, the QLearningAgent singleton and the three handlers of     *)
(* app_rl (/rl/step, /rl/reset, /rl/best_action) run as coroutines by one  *)
(* event loop.                                                             *)
(*                                                                         *)
(* Python floats are represented in fixed point: the integer x stands for  *)
(* x / Unit, and a product is rounded to the nearest representable value,  *)
(* as a float product is.                                                  *)
(***************************************************************************)
EXTENDS Integers, Sequences, FiniteSets, TLC

VARIABLES
    agent_state,   \* agent.state
    q_table,       \* agent.q_table: [0..15 -> [0..3 -> fixed point]]
    epsilon,       \* agent.epsilon
    alpha,         \* agent.alpha
    gamma,         \* agent.gamma
    tasks,         \* the request handlers' coroutines: position and locals
    running,       \* the task the event loop is running, 0 when it runs none
    response,      \* the response sent last
    nsteps,        \* number of take_step calls started
    probe          \* a direct call of GridWorld.step: arguments and result

agent_vars == <<agent_state, q_table, epsilon, alpha, gamma>>
vars == <<agent_state, q_table, epsilon, alpha, gamma, tasks, running,
          response, nsteps, probe>>

----------------------------------------------------------------------------
\* Bounds of the model.
MaxTasks == 2          \* requests in flight at once
MaxSteps == 3          \* /rl/step requests of a run of Spec
MaxScriptSteps == 480  \* /rl/step requests of a run of SpecScript

TaskIds == 1..MaxTasks

----------------------------------------------------------------------------
\* Fixed point.
Unit == 100000

\* n / d rounded to the nearest integer (d > 0 and even).
Round(n, d) == (n + d \div 2) \div d

\* The float product x * y.
Mul(x, y) == Round(x * y, Unit)

Max2(x, y) == IF x >= y THEN x ELSE y

----------------------------------------------------------------------------
\* GridWorld (grid_env = GridWorld()).
Size == 4
GoalState == 15
NumStates == 16
NumActions == 4

RewardNoop == -10000   \* -0.1
RewardGoal == 100000   \*  1.0
RewardMove == -1000    \* -0.01

\* divmod(state, self.size)
Row(state) == state \div Size
Col(state) == state % Size

\* Mutant: right is not blocked by the last column.
NextStateWrap(state, action) ==
    IF action = "up" /\ Row(state) > 0 THEN state - Size
    ELSE IF action = "right" THEN state + 1
    ELSE IF action = "down" /\ Row(state) < Size - 1 THEN state + Size
    ELSE IF action = "left" /\ Col(state) > 0 THEN state - 1
    ELSE state

\* Mutant: up is not blocked by the first row.
NextStateNoTop(state, action) ==
    IF action = "up" THEN state - Size
    ELSE IF action = "right" /\ Col(state) < Size - 1 THEN state + 1
    ELSE IF action = "down" /\ Row(state) < Size - 1 THEN state + Size
    ELSE IF action = "left" /\ Col(state) > 0 THEN state - 1
    ELSE state

NextState(state, action) ==
    IF action = "up" /\ Row(state) > 0 THEN state - Size
    ELSE IF action = "right" /\ Col(state) < Size - 1 THEN state + 1
    ELSE IF action = "down" /\ Row(state) < Size - 1 THEN state + Size
    ELSE IF action = "left" /\ Col(state) > 0 THEN state - 1
    ELSE state

\* Mutant: the goal reward takes precedence over the no-op penalty.
RewardGoalFirst(state, next_state) ==
    IF next_state = GoalState THEN RewardGoal
    ELSE IF next_state = state THEN RewardNoop ELSE RewardMove

Reward(state, next_state) ==
    IF next_state = state THEN RewardNoop
    ELSE IF next_state = GoalState THEN RewardGoal ELSE RewardMove

\* GridWorld.step: (next_state, reward, done)
GridWorldStep(state, action) ==
    LET next_state == NextState(state, action)
    IN  [next_state |-> next_state,
         reward     |-> Reward(state, next_state),
         done       |-> (next_state = GoalState)]

----------------------------------------------------------------------------
\* QLearningAgent (agent = QLearningAgent()).
InitAlpha == 10000     \* 0.1
InitGamma == 90000     \* 0.9
InitEpsilon == 10000   \* 0.1
EpsilonDecay == 99500  \* 0.995
EpsilonMin == 1000     \* 0.01

\* agent.actions, indexed from 0 as the list is
actions == [i \in 0..(NumActions - 1) |->
               CASE i = 0 -> "up" [] i = 1 -> "right"
                 [] i = 2 -> "down" [] i = 3 -> "left"]

ActionNames == {actions[i] : i \in DOMAIN actions}

\* agent.actions.index(a): the first index holding a
ActionIndex(a) ==
    CHOOSE i \in DOMAIN actions :
        actions[i] = a /\ \A j \in DOMAIN actions : actions[j] = a => i <= j

\* np.argmax over one row: a scan that keeps the first largest entry
RECURSIVE ArgMaxScan(_, _, _)
ArgMaxScan(row, i, best) ==
    IF i >= NumActions THEN best
    ELSE ArgMaxScan(row, i + 1, IF row[i] > row[best] THEN i ELSE best)

\* Mutant: the scan keeps the last largest entry.
RECURSIVE ArgMaxScanLast(_, _, _)
ArgMaxScanLast(row, i, best) ==
    IF i >= NumActions THEN best
    ELSE ArgMaxScanLast(row, i + 1, IF row[i] >= row[best] THEN i ELSE best)

ArgMaxLast(row) == ArgMaxScanLast(row, 1, 0)

ArgMax(row) == ArgMaxScan(row, 1, 0)

\* Mutant: the best next value is read from the row of the current cell.
UpdateOwnRow(q, a, g, state, action, reward, next_state) ==
    LET best_next_action == ArgMax(q[state])
        td == reward + Mul(g, q[state][best_next_action]) - q[state][action]
    IN  [q EXCEPT ![state][action] = q[state][action] + Mul(a, td)]

\* QLearningAgent.update: the q_table after update(state, action, reward, next_state)
Update(q, a, g, state, action, reward, next_state) ==
    LET best_next_action == ArgMax(q[next_state])
        td == reward + Mul(g, q[next_state][best_next_action]) - q[state][action]
    IN  [q EXCEPT ![state][action] = q[state][action] + Mul(a, td)]

\* Mutant: the decay has no floor.
DecayNoFloor(eps) == Mul(eps, EpsilonDecay)

\* agent.epsilon = max(agent.epsilon * 0.995, 0.01)
Decay(eps) == Max2(Mul(eps, EpsilonDecay), EpsilonMin)

----------------------------------------------------------------------------
\* The event loop and the handlers' coroutines.

\* Mutant: take_step awaits between the update and the advance of the cell.
SuspensionPointsAwait == {"set_state"}

\* Positions of a handler at which it awaits and the loop may run another
\* task: take_step, reset_agent and get_best_action contain no await.
SuspensionPoints == {}

IdleTask ==
    [kind |-> "none", pc |-> "idle", action |-> "", state |-> 0,
     current_state |-> 0, action_idx |-> 0, next_state |-> 0, reward |-> 0,
     done |-> FALSE, exc |-> 0]

NoResponse ==
    [kind |-> "none", status |-> 0, detail |-> "", current_state |-> 0,
     action |-> "", next_state |-> 0, reward |-> 0, is_terminal |-> FALSE,
     state |-> 0, best_action |-> "", message |-> ""]

NoProbe ==
    [state |-> 0, action |-> "", called |-> FALSE, next_state |-> 0,
     reward |-> 0, done |-> FALSE]

\* Status codes of the HTTPExceptions the handlers raise.
StatusOk == 200
StatusInvalid == 400
StatusInternal == 500

\* The first statement of each handler.
EntryPoint(kind) ==
    CASE kind = "step" -> "get_state"
      [] kind = "reset" -> "reset_set_state"
      [] kind = "best_action" -> "best_check"

\* Request bodies a client may send: RLActionInput for /rl/step,
\* RLStateInput for /rl/best_action, none for /rl/reset.
ActionInputs == ActionNames \cup {"jump"}
StateInputs == {-1, 0, 16}

Bodies(kind) ==
    CASE kind = "step" -> {[action |-> a, state |-> 0] : a \in ActionInputs}
      [] kind = "best_action" -> {[action |-> "", state |-> s] : s \in StateInputs}
      [] OTHER -> {[action |-> "", state |-> 0]}

PendingSteps ==
    Cardinality({id \in TaskIds :
                    tasks[id].kind = "step" /\ tasks[id].pc = "pending"})

\* A request arrives: its task is created, to be run by the loop.
Arrive(id, kind, cap) ==
    /\ tasks[id].pc = "idle"
    /\ kind = "step" => nsteps + PendingSteps < cap
    /\ tasks' = [tasks EXCEPT ![id] =
                    [IdleTask EXCEPT !.kind = kind, !.pc = "pending"]]
    /\ UNCHANGED <<agent_vars, running, response, nsteps, probe>>

ArriveStep(id) == Arrive(id, "step", MaxSteps)

ArriveReset(id) == Arrive(id, "reset", MaxSteps)

ArriveBestAction(id) == Arrive(id, "best_action", MaxSteps)

\* The loop, running no task, picks one that has not finished: a pending
\* one, whose handler it calls with the request's body, or one suspended at
\* an await, which it resumes.
Run(id, body) ==
    /\ running = 0
    /\ tasks[id].pc # "idle"
    /\ running' = id
    /\ IF tasks[id].pc = "pending"
       THEN /\ tasks' = [tasks EXCEPT ![id] =
                            [@ EXCEPT !.pc = EntryPoint(tasks[id].kind),
                                      !.action = body.action,
                                      !.state = body.state]]
            /\ nsteps' = IF tasks[id].kind = "step" THEN nsteps + 1 ELSE nsteps
       ELSE UNCHANGED <<tasks, nsteps>>
    /\ UNCHANGED <<agent_vars, response, probe>>

Schedule(id) == \E body \in Bodies(tasks[id].kind) : Run(id, body)

\* The running task moves to its next position; the loop keeps running it
\* unless it finished or reached an await.
Advance(id, task) ==
    /\ tasks' = [tasks EXCEPT ![id] = task]
    /\ running' = IF task.pc \in SuspensionPoints \cup {"idle"} THEN 0 ELSE id

At(id, pc) == running = id /\ tasks[id].pc = pc

\* The status a handler's "except Exception as e" clause answers with, for
\* an exception raised in its try block.
ExceptStatus(exc) == StatusInternal

----------------------------------------------------------------------------
\* take_step  (POST /rl/step)

\* current_state = agent.get_state()
GetState(id) ==
    /\ At(id, "get_state")
    /\ Advance(id, [tasks[id] EXCEPT !.current_state = agent_state,
                                     !.pc = "check_action"])
    /\ UNCHANGED <<agent_vars, response, nsteps, probe>>

\* Mutant: the exploration rate is decayed before the action is checked.
CheckActionDecayFirst(id) ==
    /\ At(id, "check_action")
    /\ epsilon' = Decay(epsilon)
    /\ IF tasks[id].action \notin ActionNames
       THEN Advance(id, [tasks[id] EXCEPT !.exc = StatusInvalid,
                                          !.pc = "step_except"])
       ELSE Advance(id, [tasks[id] EXCEPT
                            !.action_idx = ActionIndex(tasks[id].action),
                            !.pc = "env_step"])
    /\ UNCHANGED <<agent_state, q_table, alpha, gamma, response, nsteps, probe>>

\* if input.action not in agent.actions: raise HTTPException(400)
\* action_idx = agent.actions.index(input.action)
CheckAction(id) ==
    /\ At(id, "check_action")
    /\ IF tasks[id].action \notin ActionNames
       THEN Advance(id, [tasks[id] EXCEPT !.exc = StatusInvalid,
                                          !.pc = "step_except"])
       ELSE Advance(id, [tasks[id] EXCEPT
                            !.action_idx = ActionIndex(tasks[id].action),
                            !.pc = "env_step"])
    /\ UNCHANGED <<agent_vars, response, nsteps, probe>>

\* next_state, reward, done = grid_env.step(current_state, input.action)
EnvStep(id) ==
    /\ At(id, "env_step")
    /\ LET out == GridWorldStep(tasks[id].current_state, tasks[id].action)
       IN  Advance(id, [tasks[id] EXCEPT !.next_state = out.next_state,
                                         !.reward = out.reward,
                                         !.done = out.done,
                                         !.pc = "update"])
    /\ UNCHANGED <<agent_vars, response, nsteps, probe>>

\* agent.update(current_state, action_idx, reward, next_state)
AgentUpdate(id) ==
    /\ At(id, "update")
    /\ q_table' = Update(q_table, alpha, gamma, tasks[id].current_state,
                         tasks[id].action_idx, tasks[id].reward,
                         tasks[id].next_state)
    /\ Advance(id, [tasks[id] EXCEPT !.pc = "set_state"])
    /\ UNCHANGED <<agent_state, epsilon, alpha, gamma, response, nsteps, probe>>

\* agent.set_state(next_state)
SetState(id) ==
    /\ At(id, "set_state")
    /\ agent_state' = tasks[id].next_state
    /\ Advance(id, [tasks[id] EXCEPT !.pc = "decay"])
    /\ UNCHANGED <<q_table, epsilon, alpha, gamma, response, nsteps, probe>>

\* agent.epsilon = max(agent.epsilon * 0.995, 0.01)
DecayEpsilon(id) ==
    /\ At(id, "decay")
    /\ epsilon' = Decay(epsilon)
    /\ Advance(id, [tasks[id] EXCEPT !.pc = "step_return"])
    /\ UNCHANGED <<agent_state, q_table, alpha, gamma, response, nsteps, probe>>

\* return {"current_state": ..., "action": ..., "next_state": ..., ...}
StepReturn(id) ==
    /\ At(id, "step_return")
    /\ response' = [NoResponse EXCEPT
                       !.kind = "step", !.status = StatusOk,
                       !.current_state = tasks[id].current_state,
                       !.action = tasks[id].action,
                       !.next_state = tasks[id].next_state,
                       !.reward = tasks[id].reward,
                       !.is_terminal = tasks[id].done]
    /\ Advance(id, IdleTask)
    /\ UNCHANGED <<agent_vars, nsteps, probe>>

\* except Exception as e: raise HTTPException(status_code=500, ...)
StepExcept(id) ==
    /\ At(id, "step_except")
    /\ response' = [NoResponse EXCEPT
                       !.kind = "step",
                       !.status = ExceptStatus(tasks[id].exc),
                       !.detail = "RL step error",
                       !.action = tasks[id].action]
    /\ Advance(id, IdleTask)
    /\ UNCHANGED <<agent_vars, nsteps, probe>>

----------------------------------------------------------------------------
\* reset_agent  (POST /rl/reset)

\* Mutant: reset also restores the initial exploration rate.
ResetSetStateAll(id) ==
    /\ At(id, "reset_set_state")
    /\ agent_state' = 0
    /\ epsilon' = InitEpsilon
    /\ Advance(id, [tasks[id] EXCEPT !.pc = "reset_return"])
    /\ UNCHANGED <<q_table, alpha, gamma, response, nsteps, probe>>

\* agent.set_state(0)
ResetSetState(id) ==
    /\ At(id, "reset_set_state")
    /\ agent_state' = 0
    /\ Advance(id, [tasks[id] EXCEPT !.pc = "reset_return"])
    /\ UNCHANGED <<q_table, epsilon, alpha, gamma, response, nsteps, probe>>

\* return {"message": "Agent reset to initial state (0)."}
ResetReturn(id) ==
    /\ At(id, "reset_return")
    /\ response' = [NoResponse EXCEPT
                       !.kind = "reset", !.status = StatusOk,
                       !.message = "Agent reset to initial state (0)."]
    /\ Advance(id, IdleTask)
    /\ UNCHANGED <<agent_vars, nsteps, probe>>

----------------------------------------------------------------------------
\* get_best_action  (POST /rl/best_action)

\* if not 0 <= input.state < 16: raise HTTPException(400)
BestCheck(id) ==
    /\ At(id, "best_check")
    /\ IF ~(0 <= tasks[id].state /\ tasks[id].state < 16)
       THEN Advance(id, [tasks[id] EXCEPT !.exc = StatusInvalid,
                                          !.pc = "best_except"])
       ELSE Advance(id, [tasks[id] EXCEPT !.pc = "best_argmax"])
    /\ UNCHANGED <<agent_vars, response, nsteps, probe>>

\* action_idx = np.argmax(agent.q_table[input.state])
BestArgMax(id) ==
    /\ At(id, "best_argmax")
    /\ Advance(id, [tasks[id] EXCEPT
                       !.action_idx = ArgMax(q_table[tasks[id].state]),
                       !.pc = "best_return"])
    /\ UNCHANGED <<agent_vars, response, nsteps, probe>>

\* return {"state": input.state, "best_action": agent.actions[action_idx]}
BestReturn(id) ==
    /\ At(id, "best_return")
    /\ response' = [NoResponse EXCEPT
                       !.kind = "best_action", !.status = StatusOk,
                       !.state = tasks[id].state,
                       !.best_action = actions[tasks[id].action_idx]]
    /\ Advance(id, IdleTask)
    /\ UNCHANGED <<agent_vars, nsteps, probe>>

\* except Exception as e: raise HTTPException(status_code=500, ...)
BestExcept(id) ==
    /\ At(id, "best_except")
    /\ response' = [NoResponse EXCEPT
                       !.kind = "best_action",
                       !.status = ExceptStatus(tasks[id].exc),
                       !.detail = "Best action error",
                       !.state = tasks[id].state]
    /\ Advance(id, IdleTask)
    /\ UNCHANGED <<agent_vars, nsteps, probe>>

----------------------------------------------------------------------------
\* The service: any requests, in any interleaving the loop allows.

InitAgent ==
    /\ agent_state = 0
    /\ q_table = [s \in 0..(NumStates - 1) |-> [a \in 0..(NumActions - 1) |-> 0]]
    /\ epsilon = InitEpsilon
    /\ alpha = InitAlpha
    /\ gamma = InitGamma

InitLoop ==
    /\ tasks = [id \in TaskIds |-> IdleTask]
    /\ running = 0
    /\ response = NoResponse
    /\ nsteps = 0

Init == InitAgent /\ InitLoop /\ probe = NoProbe

Handler(id) ==
    \/ GetState(id) \/ CheckAction(id) \/ EnvStep(id) \/ AgentUpdate(id)
    \/ SetState(id) \/ DecayEpsilon(id) \/ StepReturn(id) \/ StepExcept(id)
    \/ ResetSetState(id) \/ ResetReturn(id)
    \/ BestCheck(id) \/ BestArgMax(id) \/ BestReturn(id) \/ BestExcept(id)

Next ==
    \E id \in TaskIds :
        \/ ArriveStep(id) \/ ArriveReset(id) \/ ArriveBestAction(id)
        \/ Schedule(id)
        \/ Handler(id)

Spec == Init /\ [][Next]_vars

----------------------------------------------------------------------------
\* One client that sends a request only after the answer to the one before
\* and follows a script through a long run: along the top row into the
\* right wall, a misspelt action, down the last column to the goal, up and
\* back down to it, then (after a reset, or without one) up, left and down
\* for the rest of the run.  It may ask for a best action at any time.

Episode == <<"right", "right", "right", "right", "jump",
             "down", "down", "down", "up", "down">>

Afterwards == <<"up", "left">>

ScriptAction(n) ==
    IF n < Len(Episode) THEN Episode[n + 1]
    ELSE IF n < Len(Episode) + Len(Afterwards) THEN Afterwards[n - Len(Episode) + 1]
    ELSE "down"

AllIdle == \A id \in TaskIds : tasks[id].pc = "idle"

ArriveScript(id) ==
    /\ AllIdle
    /\ \/ Arrive(id, "step", MaxScriptSteps)
       \/ Arrive(id, "best_action", MaxScriptSteps)
       \/ nsteps = Len(Episode) /\ Arrive(id, "reset", MaxScriptSteps)

ScheduleScript(id) ==
    IF tasks[id].kind = "step"
    THEN Run(id, [action |-> ScriptAction(nsteps), state |-> 0])
    ELSE Schedule(id)

NextScript ==
    \E id \in TaskIds :
        \/ ArriveScript(id)
        \/ ScheduleScript(id)
        \/ Handler(id)

SpecScript == Init /\ [][NextScript]_vars

----------------------------------------------------------------------------
\* GridWorld.step called directly, on every cell and every action string.

ProbeCall ==
    /\ LET out == GridWorldStep(probe.state, probe.action)
       IN  probe' = [probe EXCEPT !.called = TRUE,
                                  !.next_state = out.next_state,
                                  !.reward = out.reward,
                                  !.done = out.done]
    /\ UNCHANGED <<agent_vars, tasks, running, response, nsteps>>

InitGrid ==
    /\ InitAgent /\ InitLoop
    /\ \E state \in 0..(NumStates - 1), action \in ActionInputs :
           probe = [NoProbe EXCEPT !.state = state, !.action = action]

NextGrid == ProbeCall

SpecGrid == InitGrid /\ [][NextGrid]_vars

----------------------------------------------------------------------------
\* Properties.

\* The decimal num / den in fixed point.
Dec(num, den) == (num * Unit) \div den

Cells == 0..15
FourActions == {"up", "right", "down", "left"}

\* The largest entry of a row of the value table.
MaxOfRow(row) ==
    CHOOSE v \in {row[i] : i \in DOMAIN row} : \A i \in DOMAIN row : row[i] <= v

\* The first action, in the order up, right, down, left, whose entry is maximal.
FirstMaximal(row) ==
    LET order == <<"up", "right", "down", "left">>
        k == CHOOSE k \in 1..4 :
                 /\ row[k - 1] = MaxOfRow(row)
                 /\ \A j \in 1..(k - 1) : row[j - 1] < row[k - 1]
    IN  order[k]

\* A handler that has started and not finished.
InHandler(id) == tasks[id].pc \notin {"idle", "pending"}

\* The running handler executes a statement in this step.
Executes(id) == running = id /\ tasks'[id] # tasks[id]

\* A started request that the validation check rejects.
Rejected(t) ==
    /\ t.pc \notin {"idle", "pending"}
    /\ \/ t.kind = "step" /\ t.action \notin FourActions
       \/ t.kind = "best_action" /\ t.state \notin Cells

\* C1: on the 4x4 grid, step(c, a) moves up to c-4 iff row > 0, down to c+4
\* iff row < 3, right to c+1 iff column < 3, left to c-1 iff column > 0, and
\* returns c otherwise; a move never wraps around to another row.
C1_Moves ==
    probe.called /\ probe.action \in FourActions =>
        LET c == probe.state
            a == probe.action
            n == probe.next_state
            row == c \div 4
            col == c % 4
            legal == \/ a = "up" /\ row > 0
                     \/ a = "down" /\ row < 3
                     \/ a = "right" /\ col < 3
                     \/ a = "left" /\ col > 0
        IN  /\ a = "up" => (n = c - 4 <=> row > 0)
            /\ a = "down" => (n = c + 4 <=> row < 3)
            /\ a = "right" => (n = c + 1 <=> col < 3)
            /\ a = "left" => (n = c - 1 <=> col > 0)
            /\ ~legal => n = c
            /\ a \in {"left", "right"} => n \div 4 = row
            /\ a \in {"up", "down"} => n % 4 = col

\* right from the last cell of the top row: a no-op, not a move to cell 4
C1_Witness ==
    /\ probe.called
    /\ probe.state = 3 /\ probe.action = "right" /\ probe.next_state = 3

\* C2: the agent's current cell, and every next cell a step computes or
\* reports, is in [0, 16); step maps every cell of the grid into the grid.
C2_CellInRange ==
    /\ agent_state \in Cells
    /\ response.kind = "step" /\ response.status = 200 =>
           response.next_state \in Cells /\ response.current_state \in Cells
    /\ \A id \in TaskIds :
           tasks[id].pc \in {"update", "set_state", "decay", "step_return"} =>
               tasks[id].next_state \in Cells
    /\ \A c \in Cells, a \in ActionInputs : NextState(c, a) \in Cells

\* a step up from cell 0, into the top wall, was answered
C2_Witness ==
    /\ response.kind = "step" /\ response.status = 200
    /\ response.action = "up"
    /\ response.current_state = 0 /\ response.next_state = 0
    /\ agent_state = 0

\* C3: the reward is -0.1 when the next cell is the current one, otherwise
\* +1.0 when the next cell is 15, otherwise -0.01; is_terminal iff the next
\* cell is 15; so a no-op on the goal cell gives -0.1 with is_terminal true.
C3_Reward ==
    probe.called =>
        LET c == probe.state
            n == probe.next_state
        IN  /\ probe.reward = IF n = c THEN Dec(-1, 10)
                              ELSE IF n = 15 THEN Dec(1, 1) ELSE Dec(-1, 100)
            /\ probe.done <=> n = 15
            /\ c = 15 /\ probe.action \in {"right", "down"} =>
                   probe.reward = Dec(-1, 10) /\ probe.done

\* down on the goal cell
C3_Witness ==
    /\ probe.called
    /\ probe.state = 15 /\ probe.action = "down"
    /\ probe.reward = Dec(-1, 10) /\ probe.done

\* C4: the update statement of a step from c by a, with the environment's
\* next cell n and reward r, sets entry (c, a) to
\* old + learning_rate * (r + discount_factor * max(old[n]) - old), leaves
\* every other entry alone, and no other statement changes the table.
C4_ValueUpdate ==
    [][ /\ \A id \in TaskIds :
               At(id, "update") /\ tasks'[id].pc # "update" =>
                   LET t == tasks[id]
                       c == t.current_state
                       a == t.action_idx
                       n == t.next_state
                       r == t.reward
                       old == q_table[c][a]
                       target == r + Round(gamma * MaxOfRow(q_table[n]), Unit)
                   IN  /\ c = agent_state
                       /\ a = CHOOSE i \in 0..3 : actions[i] = t.action
                       /\ q_table'[c][a] = old + Round(alpha * (target - old), Unit)
                       /\ \A s \in Cells, b \in 0..3 :
                              <<s, b>> # <<c, a>> => q_table'[s][b] = q_table[s][b]
        /\ q_table' # q_table => \E id \in TaskIds : At(id, "update")
        /\ \A id \in TaskIds :
               At(id, "env_step") /\ tasks'[id].pc # "env_step" =>
                   /\ tasks'[id].pc = "update"
                   /\ tasks'[id].current_state = tasks[id].current_state
      ]_vars

\* the update of the step up from the goal cell to cell 11, whose best value
\* (0.1, learnt on reaching the goal) is not zero
C4_Witness ==
    \E id \in TaskIds :
        /\ tasks[id].pc = "set_state"
        /\ tasks[id].current_state = 15 /\ tasks[id].next_state = 11
        /\ q_table[11][2] = Dec(1, 10)
        /\ q_table[15][0] = Dec(8, 1000)

\* C5: a step with an unknown action, and a best_action with a cell outside
\* [0, 16), changes nothing of the agent: no statement its handler executes
\* changes the current cell, the value table or the exploration rate, and it
\* ends in an error response.
C5_RejectedNoMutation ==
    [][ \A id \in TaskIds :
            /\ Executes(id) /\ Rejected(tasks[id]) =>
                   /\ UNCHANGED <<agent_state, q_table, epsilon>>
                   /\ tasks'[id].pc = "idle" => response'.status >= 400
                   /\ tasks'[id].pc \in {"idle", "check_action", "step_except",
                                         "best_except"}
            /\ tasks[id].pc = "pending" /\ tasks'[id].pc # "pending" =>
                   UNCHANGED <<agent_state, q_table, epsilon>>
      ]_vars

\* an unknown action was rejected after the agent had moved and learnt
C5_Witness ==
    /\ response.kind = "step" /\ response.action = "jump"
    /\ response.status >= 400
    /\ agent_state # 0
    /\ epsilon < Dec(1, 10)

\* C6: a step with an unknown action, and a best_action with a cell outside
\* [0, 16), is answered with the invalid-input error (status 400).
C6_InvalidInputKind ==
    \/ response.kind = "step" /\ response.action \notin FourActions
    \/ response.kind = "best_action" /\ response.state \notin Cells
    => response.status = 400

\* C7: reset succeeds and sets the current cell to 0; it leaves the value
\* table, the exploration rate, the learning rate and the discount factor
\* as they were.
C7_Reset ==
    /\ [](/\ response.kind = "reset" => response.status = 200
          /\ \A id \in TaskIds : tasks[id].kind = "reset" => tasks[id].exc = 0)
    /\ [][ \A id \in TaskIds :
               Executes(id) /\ tasks[id].kind = "reset" =>
                   /\ UNCHANGED <<q_table, epsilon, alpha, gamma>>
                   /\ tasks[id].pc = "reset_set_state" => agent_state' = 0
                   /\ tasks'[id].pc = "idle" =>
                          agent_state' = 0 /\ response'.kind = "reset"
         ]_vars

\* a reset after one step right (the agent was at cell 1)
C7_Witness ==
    /\ \E id \in TaskIds : tasks[id].pc = "reset_return"
    /\ nsteps = 1
    /\ q_table[0][1] # 0
    /\ epsilon < Dec(1, 10)
    /\ agent_state = 0

\* C8: the exploration rate starts at 0.1, never increases and never drops
\* below 0.01; the decay of a step replaces it by max(rate * 0.995, 0.01),
\* and nothing else changes it.
C8_ExplorationRate ==
    /\ [](Dec(1, 100) <= epsilon /\ epsilon <= Dec(1, 10))
    /\ [][ /\ epsilon' <= epsilon
           /\ \A id \in TaskIds :
                  At(id, "decay") /\ tasks'[id].pc # "decay" =>
                      epsilon' = Max2(Round(epsilon * 995, 1000), Dec(1, 100))
           /\ epsilon' # epsilon =>
                  \E id \in TaskIds : At(id, "decay") /\ tasks[id].kind = "step"
           /\ \A id \in TaskIds :
                  At(id, "set_state") /\ tasks'[id].pc # "set_state" =>
                      tasks'[id].pc = "decay"
         ]_vars

\* a step decayed the rate at the floor
C8_Witness ==
    /\ epsilon = Dec(1, 100)
    /\ \E id \in TaskIds :
           /\ tasks[id].pc = "step_return"
           /\ tasks[id].next_state = tasks[id].current_state

\* C9: best_action answers, for a cell in [0, 16) and whatever the agent's
\* current cell, the first action in the order up, right, down, left whose
\* entry at that cell is maximal, and its handler changes nothing of the agent.
C9_BestAction ==
    /\ [](/\ \A id \in TaskIds :
                 tasks[id].pc = "best_return" =>
                     /\ tasks[id].state \in Cells
                     /\ actions[tasks[id].action_idx] =
                            FirstMaximal(q_table[tasks[id].state])
          /\ (\A a \in 0..3 : q_table[0][a] = 0) =>
                 actions[ArgMax(q_table[0])] = "up")
    /\ [][ \A id \in TaskIds :
               Executes(id) /\ tasks[id].kind = "best_action" =>
                   /\ UNCHANGED <<agent_state, q_table, epsilon>>
                   /\ tasks[id].pc = "best_return" =>
                          /\ response'.kind = "best_action"
                          /\ response'.state = tasks[id].state
                          /\ response'.best_action =
                                 FirstMaximal(q_table[tasks[id].state])
         ]_vars

\* the best action of cell 0 is neither up nor right, asked with the agent
\* on another cell
C9_Witness ==
    \E id \in TaskIds :
        /\ tasks[id].pc = "best_return"
        /\ tasks[id].state = 0
        /\ tasks[id].action_idx = 2
        /\ agent_state # 0

\* C10: a step is indivisible: a handler that has started is the one task
\* the loop runs until it has finished, so between a step's read of the
\* current cell and its decay the agent is as that step left it: the cell it
\* read is the agent's cell until it advances it, and the next cell it
\* reports is the agent's cell from then on.
C10_StepIndivisible ==
    \A id \in TaskIds :
        /\ InHandler(id) => running = id
        /\ tasks[id].pc \in {"check_action", "env_step", "update", "set_state"}
               => tasks[id].current_state = agent_state
        /\ tasks[id].pc \in {"decay", "step_return"} =>
               tasks[id].next_state = agent_state

\* a step has updated the table and not yet advanced the cell, with a reset
\* waiting
C10_Witness ==
    \E id, other \in TaskIds :
        /\ tasks[id].pc = "set_state"
        /\ tasks[id].next_state # tasks[id].current_state
        /\ tasks[other].pc = "pending" /\ tasks[other].kind = "reset"

====
